---- MODULE Spec2Model ----
(***************************************************************************)
(* A model of myst-preview's command line tool (src/myst_preview/cli.py):  *)
(* validation of the file argument, staging of the temporary workspace,    *)
(* the free-port search, the build-mode and serve-mode supervision of the  *)
(* renderer child process, and the teardown routine run from the signal    *)
(* handlers and from the finally clause of main().                         *)
(*                                                                         *)
(* File names are sequences of tokens, "." being a token of its own, so    *)
(* that Path.suffix, Path.stem and str.startswith(".") are computed and    *)
(* not assumed.  File contents are sequences of lines, a line a sequence   *)
(* of tokens.                                                              *)
(***************************************************************************)
EXTENDS Integers, Sequences, FiniteSets, TLC

\* ------------------------------------------------------------------ bounds

\* Signals (SIGINT or SIGTERM) delivered to the tool during one invocation.
MaxSignals == 2

\* Ports next to the requested one whose occupancy is chosen one by one;
\* every other port is occupied or free as a block (restBusy).
MaxBusy == 2

\* A start of the port search for which start + 50 exceeds the last port.
HighPort == 65500

\* ------------------------------------------------------- program constants

\* --port default (argparse).
DefaultPort == 3000

\* find_free_port: end = start + 50 when end is omitted.
PortSpan == 50

\* socket.bind() accepts ports 0..65535 and raises OverflowError otherwise.
MaxPort == 65535

\* The exit status of a process is the low 8 bits of the code given to
\* sys.exit().
ExitMod == 256

\* ------------------------------------------------------------------- names

N_notes_md == <<"notes", ".", "md">>

N_nb_ipynb == <<"nb", ".", "ipynb">>

N_doc_rst == <<"doc", ".", "rst">>

N_doc_tex == <<"doc", ".", "tex">>

N_a_tar_md == <<"a", ".", "tar", ".", "md">>

N_notes_MD == <<"notes", ".", "MD">>

N_notes_txt == <<"notes", ".", "txt">>

N_notes == <<"notes">>

N_dot_md == <<".", "md">>

N_git == <<".", "git">>

N_img == <<"img">>

N_myst_yml == <<"myst", ".", "yml">>

N_build == <<"_build">>

\* The file arguments tried.
FileArgs ==
  {N_notes_md, N_nb_ipynb, N_doc_rst, N_doc_tex, N_a_tar_md, N_notes_MD,
   N_notes_txt, N_notes, N_dot_md}

\* The other entries a source directory may hold.
Siblings == {N_git, N_img, N_myst_yml, N_build}

AllNames == FileArgs \cup Siblings

Themes == {"book-theme", "article-theme"}

\* Return codes of the renderer as subprocess reports them: an exit code, or
\* minus the signal number when the child was killed by a signal.
RetCodes == {0, 1, 2, -9}

\* ------------------------------------------------------------ pure helpers

\* Position of the last "." of a file name, 0 when there is none (str.rfind).
RECURSIVE RFindDot(_, _)
RFindDot(name, i) ==
  IF i = 0 THEN 0
  ELSE IF name[i] = "." THEN i
  ELSE RFindDot(name, i - 1)

\* Path.suffix: the last dot and what follows it, unless the dot is the
\* first or the last character of the name.
Suffix(name) ==
  LET i == RFindDot(name, Len(name))
  IN  IF i > 1 /\ i < Len(name) THEN SubSeq(name, i, Len(name)) ELSE <<>>

\* Path.stem: the name without its suffix.
Stem(name) ==
  LET i == RFindDot(name, Len(name))
  IN  IF i > 1 /\ i < Len(name) THEN SubSeq(name, 1, i - 1) ELSE name

\* item.name.startswith(".")
Hidden(name) == Len(name) > 0 /\ name[1] = "."

SUPPORTED_EXTENSIONS_NoTex ==
  {<<".", "md">>, <<".", "ipynb">>, <<".", "rst">>}

SUPPORTED_EXTENSIONS ==
  {<<".", "md">>, <<".", "ipynb">>, <<".", "rst">>, <<".", "tex">>}

\* MYST_YML_TEMPLATE.format(theme=..., slug=...)
MYST_YML_TEMPLATE(theme, slug) ==
  << <<"version: 1">>,
     <<"site:">>,
     <<"  template: ", theme>>,
     <<"project:">>,
     <<"  toc:">>,
     <<"    - file: ">> \o slug >>

\* The content of a file of the source directory the tool did not write.
UserData == << <<"user">> >>

NoData == <<>>

\* sys.exit(code): the exit status the parent observes.
ExitStatus(code) == code % ExitMod

\* ------------------------------------------------------------------- state

VARIABLES
  \* the invocation request (argparse)
  file,        \* args.file, an entry name of the source directory
  theme,       \* args.theme
  build,       \* args.build
  execute,     \* args.execute
  outAlias,    \* the output location is <source_dir>/_build/html
  noOpen,      \* args.no_open
  portArg,     \* args.port (the start of the port search)
  pEnd,        \* the end given to find_free_port, 0 when omitted
  \* the environment
  src,         \* the source directory: name -> [kind, data]
  srcBuildHtml,\* the content of <source_dir>/_build/html
  otherOut,    \* the content of an output location outside the source dir
  busy,        \* occupied ports among portArg .. portArg + MaxBusy - 1
  restBusy,    \* whether every other port is occupied
  onPath,      \* which of "myst" and "npx" shutil.which() finds
  \* the tool
  pc,          \* position of main()
  cl,          \* position of the running cleanup(), "none" when none runs
  clBy,        \* who called the running cleanup(): "handler" or "finally"
  pending,     \* the code of the SystemExit being propagated, 0 when none
  exitCode,    \* exit status of the tool once it has ended
  ended,       \* "no", "exit" (interpreter exit) or "killed" (by a signal)
  hInt,        \* cleanup_and_exit registered for SIGINT
  hTerm,       \* cleanup_and_exit registered for SIGTERM
  proc,        \* the variable proc: "None" or "Popen"
  wsExists,    \* tmpdir exists on disk
  ws,          \* the entries of tmpdir: name -> [kind, target, data]
  cmd,         \* the command line of the child that was launched
  pRes,        \* what find_free_port did
  msgs,        \* what was printed: <<stream, message, number, number>>
  browser,     \* number of webbrowser.open() calls
  \* the renderer child process
  child,       \* "none", "running" or "exited"
  childRc,     \* its return code once exited
  listening,   \* the child accepts connections on its port
  sent,        \* signals cleanup() sent to it, in order
  \* signals delivered to the tool, failures of the environment
  sigs,        \* how many signals
  sigEarly,    \* one was delivered before both handlers were registered
  faults       \* an operating system call of the tool failed (injected)

argVars == <<file, theme, build, execute, outAlias, noOpen, portArg, pEnd>>

envVars == <<src, srcBuildHtml, otherOut, busy, restBusy, onPath>>

ctlVars == <<pc, cl, clBy, pending, exitCode, ended, hInt, hTerm>>

toolVars == <<proc, wsExists, ws, cmd, pRes, msgs, browser>>

childVars == <<child, childRc, listening, sent>>

sigVars == <<sigs, sigEarly, faults>>

vars == <<argVars, envVars, ctlVars, toolVars, childVars, sigVars>>

\* -------------------------------------------------------------- filesystem

SrcAbsent == [kind |-> "absent", data |-> NoData]

SrcEntry(k) ==
  [kind |-> k, data |-> IF k = "file" THEN UserData ELSE NoData]

WsAbsent == [kind |-> "absent", target |-> <<>>, data |-> NoData]

WsLink(n) == [kind |-> "link", target |-> n, data |-> NoData]

WsFile(d) == [kind |-> "file", target |-> <<>>, data |-> d]

WsDir(d) == [kind |-> "dir", target |-> <<>>, data |-> d]

EmptyWs == [n \in AllNames |-> WsAbsent]

\* What a directory held before the tool ran, and what the renderer builds.
OldOutput == << <<"old">> >>

NewOutput == << <<"html">> >>

\* Path.exists() of an entry of the source directory (follows links).
SrcExists(s, n) == s[n].kind \in {"file", "dir"}

\* Path.exists() of tmpdir/n (follows links).
WsPathExists(w, s, n) ==
  \/ w[n].kind \in {"file", "dir"}
  \/ w[n].kind = "link" /\ SrcExists(s, w[n].target)

\* source_dir.iterdir(): the entries of the source directory.
Listed(s) == {n \in AllNames : s[n].kind # "absent"}

SkipNothing(name) == FALSE

\* if item.name.startswith("."): continue
Skipped(name) == Hidden(name)

\* The entries the staging loop links.
Linkable(s) == {n \in Listed(s) : ~Skipped(n)}

\* The staging loop over the entries in S: os.symlink(item, target) unless
\* target.exists().
LinkAll(w, s, S) ==
  [n \in AllNames |->
     IF n \in S /\ ~WsPathExists(w, s, n) THEN WsLink(n) ELSE w[n]]

UnlinkNever(w) == w

\* if myst_yml.is_symlink(): myst_yml.unlink()
UnlinkIfSymlink(w) ==
  IF w[N_myst_yml].kind = "link"
  THEN [w EXCEPT ![N_myst_yml] = WsAbsent]
  ELSE w

\* Path.write_text() on tmpdir/n: it opens the path for writing, following
\* a link; a directory in the way, or a link that leads nowhere, raises.
WriteTextRaises(w, s, n) ==
  \/ w[n].kind = "dir"
  \/ w[n].kind = "link" /\ s[w[n].target].kind \in {"dir", "dangling"}

WriteTextWs(w, n, d) ==
  IF w[n].kind \in {"absent", "file"} THEN [w EXCEPT ![n] = WsFile(d)] ELSE w

WriteTextSrc(w, s, n, d) ==
  IF w[n].kind = "link"
  THEN [s EXCEPT ![w[n].target] = [kind |-> "file", data |-> d]]
  ELSE s

\* The directory tmpdir/_build/html: in tmpdir itself, or behind the link
\* tmpdir/_build -> <source_dir>/_build.
BuildDirContent ==
  IF ~wsExists THEN NoData
  ELSE IF ws[N_build].kind = "dir" THEN ws[N_build].data
  ELSE IF ws[N_build].kind = "link" /\ src[N_build].kind = "dir"
       THEN srcBuildHtml
  ELSE NoData

\* Whether the renderer can create tmpdir/_build/html.
BuildDirWritable ==
  /\ wsExists
  /\ \/ ws[N_build].kind \in {"absent", "dir"}
     \/ ws[N_build].kind = "link" /\ src[N_build].kind = "dir"

\* The content of the output location (args.output, else cwd/_build/html).
OutputContent ==
  IF outAlias
  THEN IF src[N_build].kind = "dir" THEN srcBuildHtml ELSE NoData
  ELSE otherOut

\* --------------------------------------------------------------- ports

\* The ports whose occupancy is chosen one by one.
Window == portArg .. (portArg + MaxBusy - 1)

Occupied(p) == IF p \in Window THEN p \in busy ELSE restBusy

\* s.bind(("", port)): "ok", "oserror" (in use) or "overflow" (the port is
\* no port number: OverflowError, which is no OSError).
Probe(p) ==
  IF p < 0 \/ p > MaxPort THEN "overflow"
  ELSE IF Occupied(p) THEN "oserror"
  ELSE "ok"

PortPending == [kind |-> "pending", port |-> 0, lo |-> 0, hi |-> 0]

RECURSIVE Scan(_, _, _)
Scan(p, start, end) ==
  IF p > end
  THEN [kind |-> "exit", port |-> 0, lo |-> start, hi |-> end]
  ELSE IF Probe(p) = "ok"
       THEN [kind |-> "return", port |-> p, lo |-> start, hi |-> end]
  ELSE IF Probe(p) = "overflow"
       THEN [kind |-> "raise", port |-> p, lo |-> start, hi |-> end]
  ELSE Scan(p + 1, start, end)

ScanFromStartPlusOne(start, end) ==
  Scan(start + 1, start, IF end = 0 THEN start + PortSpan ELSE end)

\* find_free_port(start, end): "return" a port, "exit" (message and
\* sys.exit(1)) or "raise" (the OverflowError of bind leaves the function).
FindFreePort(start, end) ==
  Scan(start, start, IF end = 0 THEN start + PortSpan ELSE end)

\* -------------------------------------------------------------------- init

InitTool ==
  /\ pc = "start" /\ cl = "none" /\ clBy = "none"
  /\ pending = 0 /\ exitCode = 0 /\ ended = "no"
  /\ hInt = FALSE /\ hTerm = FALSE
  /\ proc = "None" /\ wsExists = FALSE /\ ws = EmptyWs
  /\ cmd = <<>> /\ pRes = PortPending /\ msgs = {} /\ browser = 0
  /\ child = "none" /\ childRc = 0 /\ listening = FALSE /\ sent = <<>>
  /\ sigs = 0 /\ sigEarly = FALSE /\ faults = FALSE

\* A source directory: the file argument, a hidden .git, img, and possibly
\* a myst.yml and a _build.
SrcDir(f, fk, gk, ik, yk, bk) ==
  [n \in AllNames |->
     IF n = f THEN SrcEntry(fk)
     ELSE IF n = N_git THEN SrcEntry(gk)
     ELSE IF n = N_img THEN SrcEntry(ik)
     ELSE IF n = N_myst_yml THEN SrcEntry(yk)
     ELSE IF n = N_build THEN SrcEntry(bk)
     ELSE SrcAbsent]

\* Occupancy of the ports around the requested one.
InitPorts(starts) ==
  /\ portArg \in starts
  /\ busy \in SUBSET Window
  /\ restBusy \in BOOLEAN

\* The invocations of the whole tool that are explored.
Init ==
  /\ InitTool
  /\ file \in {N_notes_md, N_notes_txt}
  /\ theme = "book-theme"
  /\ execute \in BOOLEAN
  /\ build \in BOOLEAN
  /\ pEnd = 0
  /\ \E bk \in IF build THEN {"absent", "dir", "file"} ELSE {"absent"} :
       /\ src = SrcDir(file, "file", "dir", "absent", "file", bk)
       /\ srcBuildHtml \in
            IF bk = "dir" /\ build THEN {NoData, OldOutput} ELSE {NoData}
  /\ IF build
     THEN /\ outAlias \in BOOLEAN
          /\ otherOut \in IF outAlias THEN {NoData} ELSE {NoData, OldOutput}
          /\ noOpen = FALSE
          /\ portArg = DefaultPort /\ busy = {} /\ restBusy = FALSE
     ELSE /\ outAlias = FALSE /\ otherOut = NoData
          /\ noOpen \in BOOLEAN
          /\ InitPorts({DefaultPort, HighPort})
  /\ onPath \in SUBSET {"myst", "npx"}

\* The invocations explored up to the end of staging: every file argument,
\* every kind of entry, both themes.
InitStage ==
  /\ InitTool
  /\ file \in FileArgs
  /\ theme \in Themes
  /\ execute = FALSE /\ build = FALSE /\ outAlias = FALSE /\ noOpen = FALSE
  /\ pEnd = 0 /\ portArg = DefaultPort /\ busy = {} /\ restBusy = FALSE
  /\ \E fk \in {"absent", "file", "dir", "dangling"},
        gk \in {"absent", "dir"}, ik \in {"absent", "dir"},
        yk \in {"absent", "file", "dir", "dangling"},
        bk \in {"absent", "dir"} :
       src = SrcDir(file, fk, gk, ik, yk, bk)
  /\ srcBuildHtml = NoData /\ otherOut = NoData
  /\ onPath = {"myst"}

\* The calls of find_free_port explored on their own: starts and ends
\* (0: omitted), the occupancy of the ports.
InitPort ==
  /\ InitTool
  /\ file = N_notes_md /\ theme = "book-theme"
  /\ execute = FALSE /\ build = FALSE /\ outAlias = FALSE /\ noOpen = FALSE
  /\ src = SrcDir(file, "file", "absent", "absent", "absent", "absent")
  /\ srcBuildHtml = NoData /\ otherOut = NoData
  /\ onPath = {"myst"}
  /\ InitPorts({-1, DefaultPort, HighPort})
  /\ pEnd \in {0, portArg - 1, portArg, portArg + MaxBusy, portArg + PortSpan + 1}

\* ------------------------------------------------------------ control flow

\* main() runs: the process lives and no signal handler is running.
MainRuns == ended = "no" /\ cl = "none"

\* An exception or a SystemExit leaves the try block: the finally clause
\* calls cleanup(), and `code` is the exit code once it returns.
ToFinally(code) ==
  /\ pc' = "finally" /\ cl' = "check" /\ clBy' = "finally"
  /\ pending' = code

\* An Exception is raised inside the try block.
ToExcept ==
  /\ pc' = "except"
  /\ UNCHANGED <<cl, clBy, pending>>

Goto(l) ==
  /\ pc' = l
  /\ UNCHANGED <<cl, clBy, pending>>

\* The interpreter exits with `code`.
ExitNow(code) ==
  /\ pc' = "done" /\ cl' = "none" /\ clBy' = "none" /\ pending' = code
  /\ ended' = "exit" /\ exitCode' = ExitStatus(code)

Say(m) == msgs' = msgs \cup {m}

\* ---------------------------------------------- validation and staging

\* source.exists() and source.suffix in SUPPORTED_EXTENSIONS, else a message
\* and sys.exit(1), outside the try block.
Validate ==
  /\ pc = "start" /\ MainRuns
  /\ IF ~SrcExists(src, file)
     THEN /\ Say(<<"stderr", "does not exist", 0, 0>>)
          /\ ExitNow(1)
     ELSE IF Suffix(file) \notin SUPPORTED_EXTENSIONS
     THEN /\ Say(<<"stderr", "unsupported file type", 0, 0>>)
          /\ ExitNow(1)
     ELSE /\ Goto("mkdtemp")
          /\ UNCHANGED <<msgs, ended, exitCode>>
  /\ UNCHANGED <<argVars, envVars, hInt, hTerm, proc, wsExists, ws, cmd,
                 pRes, browser, childVars, sigVars>>

\* tmpdir = tempfile.mkdtemp(prefix="myst-preview-"); proc = None
Mkdtemp ==
  /\ pc = "mkdtemp" /\ MainRuns
  /\ wsExists' = TRUE /\ ws' = EmptyWs /\ proc' = "None"
  /\ Goto("sig_int")
  /\ UNCHANGED <<argVars, envVars, exitCode, ended, hInt, hTerm, cmd, pRes,
                 msgs, browser, childVars, sigVars>>

\* signal.signal(signal.SIGINT, cleanup_and_exit)
InstallSigint ==
  /\ pc = "sig_int" /\ MainRuns
  /\ hInt' = TRUE
  /\ Goto("sig_term")
  /\ UNCHANGED <<argVars, envVars, exitCode, ended, hTerm, toolVars,
                 childVars, sigVars>>

\* signal.signal(signal.SIGTERM, cleanup_and_exit); the try block begins.
InstallSigterm ==
  /\ pc = "sig_term" /\ MainRuns
  /\ hTerm' = TRUE
  /\ Goto("links")
  /\ UNCHANGED <<argVars, envVars, exitCode, ended, hInt, toolVars,
                 childVars, sigVars>>

\* for item in source_dir.iterdir(): link every entry that is not hidden.
StageLinks ==
  /\ pc = "links" /\ MainRuns
  /\ ws' = LinkAll(ws, src, Linkable(src))
  /\ Goto("descr")
  /\ UNCHANGED <<argVars, envVars, exitCode, ended, hInt, hTerm, proc,
                 wsExists, cmd, pRes, msgs, browser, childVars, sigVars>>

\* iterdir() or os.symlink() raises OSError after some entries were linked.
StageLinksFail ==
  /\ pc = "links" /\ MainRuns
  /\ \E S \in SUBSET Linkable(src) :
       /\ S = {} \/ S # Linkable(src)
       /\ ws' = LinkAll(ws, src, S)
  /\ faults' = TRUE
  /\ ToExcept
  /\ UNCHANGED <<argVars, envVars, exitCode, ended, hInt, hTerm, proc,
                 wsExists, cmd, pRes, msgs, browser, childVars, sigs,
                 sigEarly>>

\* myst_yml.unlink() if it is a link, then myst_yml.write_text(template).
WriteDescriptor ==
  /\ pc = "descr" /\ MainRuns
  /\ LET w == UnlinkIfSymlink(ws)
         d == MYST_YML_TEMPLATE(theme, Stem(file))
     IN  IF WriteTextRaises(w, src, N_myst_yml)
         THEN /\ ws' = w
              /\ src' = src
              /\ ToExcept
         ELSE /\ ws' = WriteTextWs(w, N_myst_yml, d)
              /\ src' = WriteTextSrc(w, src, N_myst_yml, d)
              /\ Goto("find_myst")
  /\ UNCHANGED <<argVars, srcBuildHtml, otherOut, busy, restBusy, onPath,
                 exitCode, ended, hInt, hTerm, proc, wsExists, cmd, pRes,
                 msgs, browser, childVars, sigVars>>

NextStage ==
  \/ Validate
  \/ Mkdtemp
  \/ InstallSigint
  \/ InstallSigterm
  \/ StageLinks
  \/ WriteDescriptor

SpecStage == InitStage /\ [][NextStage]_vars

\* ----------------------------------------------------- renderer, modes

FindMystCmdNpxFirst(path) ==
  IF "npx" \in path THEN <<"npx", "-y", "mystmd">>
  ELSE IF "myst" \in path THEN <<"myst">>
  ELSE <<>>

\* find_myst(): [myst], else [npx, "-y", "mystmd"], else <<>> (sys.exit(1)).
FindMystCmd(path) ==
  IF "myst" \in path THEN <<"myst">>
  ELSE IF "npx" \in path THEN <<"npx", "-y", "mystmd">>
  ELSE <<>>

ExecuteFlag == IF execute THEN <<"--execute">> ELSE <<>>

\* myst_cmd = find_myst()
FindMyst ==
  /\ pc = "find_myst" /\ MainRuns
  /\ IF FindMystCmd(onPath) = <<>>
     THEN /\ Say(<<"stderr", "myst not found", 0, 0>>)
          /\ ToFinally(1)
          /\ cmd' = cmd
     ELSE /\ cmd' = FindMystCmd(onPath)
          /\ Goto(IF build THEN "b_launch" ELSE "s_port")
          /\ msgs' = msgs
  /\ UNCHANGED <<argVars, envVars, exitCode, ended, hInt, hTerm, proc,
                 wsExists, ws, pRes, browser, childVars, sigVars>>

\* subprocess.run(cmd, cwd=tmpdir): the child is forked inside Popen().
BuildLaunch ==
  /\ pc = "b_launch" /\ MainRuns
  /\ cmd' = cmd \o <<"build", "--html">> \o ExecuteFlag
  /\ Say(<<"stdout", "Building", 0, 0>>)
  /\ child' = "running"
  /\ Goto("b_spawned")
  /\ UNCHANGED <<argVars, envVars, exitCode, ended, hInt, hTerm, proc,
                 wsExists, ws, pRes, browser, childRc, listening, sent,
                 sigVars>>

\* subprocess.run enters `with Popen(...) as process: try: communicate()`.
BuildEnterWait ==
  /\ pc = "b_spawned" /\ MainRuns
  /\ Goto("b_wait")
  /\ UNCHANGED <<argVars, envVars, exitCode, ended, hInt, hTerm, toolVars,
                 childVars, sigVars>>

BuildSucceededAlways(rc) == TRUE

\* if result.returncode == 0:
BuildSucceeded(rc) == rc = 0

\* subprocess.run returns; if result.returncode == 0: ...
BuildResult ==
  /\ pc = "b_wait" /\ MainRuns
  /\ child = "exited"
  /\ Goto(IF BuildSucceeded(childRc) THEN "b_rm" ELSE "b_exit")
  /\ UNCHANGED <<argVars, envVars, exitCode, ended, hInt, hTerm, toolVars,
                 childVars, sigVars>>

\* if output_dir.exists(): shutil.rmtree(output_dir)
BuildRemoveOutput ==
  /\ pc = "b_rm" /\ MainRuns
  /\ IF OutputContent = NoData
     THEN UNCHANGED <<srcBuildHtml, otherOut>>
     ELSE IF outAlias
     THEN srcBuildHtml' = NoData /\ otherOut' = otherOut
     ELSE otherOut' = NoData /\ srcBuildHtml' = srcBuildHtml
  /\ Goto("b_copy")
  /\ UNCHANGED <<argVars, src, busy, restBusy, onPath, exitCode, ended,
                 hInt, hTerm, toolVars, childVars, sigVars>>

\* shutil.rmtree(output_dir) raises (it does not ignore errors).
BuildRemoveFail ==
  /\ pc = "b_rm" /\ MainRuns
  /\ OutputContent # NoData
  /\ faults' = TRUE
  /\ ToExcept
  /\ UNCHANGED <<argVars, envVars, exitCode, ended, hInt, hTerm, toolVars,
                 childVars, sigs, sigEarly>>

\* shutil.copytree(build_dir, output_dir): raises when build_dir is missing
\* or output_dir exists or cannot be created; else output_dir is created
\* (with its parents) as a copy of build_dir.
BuildCopy ==
  /\ pc = "b_copy" /\ MainRuns
  /\ IF \/ BuildDirContent = NoData
        \/ OutputContent # NoData
        \/ outAlias /\ src[N_build].kind \in {"file", "dangling"}
     THEN /\ ToExcept
          /\ UNCHANGED <<src, srcBuildHtml, otherOut, msgs>>
     ELSE /\ IF outAlias
             THEN /\ src' = [src EXCEPT ![N_build] = SrcEntry("dir")]
                  /\ srcBuildHtml' = BuildDirContent
                  /\ otherOut' = otherOut
             ELSE /\ otherOut' = BuildDirContent
                  /\ UNCHANGED <<src, srcBuildHtml>>
          /\ Say(<<"stdout", "Output written", 0, 0>>)
          /\ Goto("b_exit")
  /\ UNCHANGED <<argVars, busy, restBusy, onPath, exitCode, ended, hInt,
                 hTerm, proc, wsExists, ws, cmd, pRes, browser, childVars,
                 sigVars>>

\* shutil.copytree raises for a reason of the environment (disk full, ...).
BuildCopyFail ==
  /\ pc = "b_copy" /\ MainRuns
  /\ faults' = TRUE
  /\ ToExcept
  /\ UNCHANGED <<argVars, envVars, exitCode, ended, hInt, hTerm, toolVars,
                 childVars, sigs, sigEarly>>

BuildExitCodeZero(rc) == 0

\* The code given to sys.exit in build mode: result.returncode.
BuildExitCode(rc) == rc

\* sys.exit(result.returncode)
BuildExit ==
  /\ pc = "b_exit" /\ MainRuns
  /\ ToFinally(BuildExitCode(childRc))
  /\ UNCHANGED <<argVars, envVars, exitCode, ended, hInt, hTerm, toolVars,
                 childVars, sigVars>>

\* port = find_free_port(args.port), and the message when it differs.
ServePort ==
  /\ pc = "s_port" /\ MainRuns
  /\ LET r == FindFreePort(portArg, 0)
     IN  /\ pRes' = r
         /\ IF r.kind = "return"
            THEN /\ msgs' = IF r.port # portArg
                            THEN msgs \cup
                                 {<<"stdout", "port in use", portArg, r.port>>}
                            ELSE msgs
                 /\ Goto("s_launch")
            ELSE IF r.kind = "exit"
            THEN /\ Say(<<"stderr", "no free port found in range", r.lo, r.hi>>)
                 /\ ToFinally(1)
            ELSE /\ msgs' = msgs
                 /\ ToExcept
  /\ UNCHANGED <<argVars, envVars, exitCode, ended, hInt, hTerm, proc,
                 wsExists, ws, cmd, browser, childVars, sigVars>>

LaunchPortRequested == portArg

\* The port put on the renderer's command line: str(port), where
\* port = find_free_port(args.port).
LaunchPort == pRes.port

\* subprocess.Popen(cmd, cwd=tmpdir, env=env): the child is forked; the
\* handle is not yet stored in proc.
ServeLaunch ==
  /\ pc = "s_launch" /\ MainRuns
  /\ cmd' = cmd \o <<"start", "--port", ToString(LaunchPort), "--keep-host">>
                \o ExecuteFlag
  /\ Say(<<"stdout", "Starting MyST preview", 0, 0>>)
  /\ child' = "running"
  /\ Goto("s_spawned")
  /\ UNCHANGED <<argVars, envVars, exitCode, ended, hInt, hTerm, proc,
                 wsExists, ws, pRes, browser, childRc, listening, sent,
                 sigVars>>

\* Popen() or subprocess.run() fails to start the child (OSError).
LaunchFail ==
  /\ pc \in {"b_launch", "s_launch"} /\ MainRuns
  /\ faults' = TRUE
  /\ ToExcept
  /\ UNCHANGED <<argVars, envVars, exitCode, ended, hInt, hTerm, toolVars,
                 childVars, sigs, sigEarly>>

WaitsForPortAlways == TRUE

\* if not args.no_open:
WaitsForPort == ~noOpen

\* proc = <the Popen object>; if not args.no_open: wait_for_port(port)
ServeStore ==
  /\ pc = "s_spawned" /\ MainRuns
  /\ proc' = "Popen"
  /\ Goto(IF WaitsForPort THEN "s_poll" ELSE "s_wait")
  /\ UNCHANGED <<argVars, envVars, exitCode, ended, hInt, hTerm, wsExists,
                 ws, cmd, pRes, msgs, browser, childVars, sigVars>>

\* wait_for_port: connect_ex(("127.0.0.1", port)) == 0, return True.
ServePoll ==
  /\ pc = "s_poll" /\ MainRuns
  /\ listening
  /\ Goto("s_open")
  /\ UNCHANGED <<argVars, envVars, exitCode, ended, hInt, hTerm, toolVars,
                 childVars, sigVars>>

\* wait_for_port: the deadline has passed, return False.
ServePollTimeout ==
  /\ pc = "s_poll" /\ MainRuns
  /\ Goto("s_wait")
  /\ UNCHANGED <<argVars, envVars, exitCode, ended, hInt, hTerm, toolVars,
                 childVars, sigVars>>

\* webbrowser.open(f"http://localhost:{port}")
ServeOpen ==
  /\ pc = "s_open" /\ MainRuns
  /\ browser' = browser + 1
  /\ Goto("s_wait")
  /\ UNCHANGED <<argVars, envVars, exitCode, ended, hInt, hTerm, proc,
                 wsExists, ws, cmd, pRes, msgs, childVars, sigVars>>

WaitReturnsAnyway == TRUE

\* proc.wait(), without a timeout, returns only once the child has exited.
WaitReturns == child = "exited"

\* proc.wait() returns: the try block ends, main() returns after finally.
ServeWait ==
  /\ pc = "s_wait" /\ MainRuns
  /\ WaitReturns
  /\ ToFinally(0)
  /\ UNCHANGED <<argVars, envVars, exitCode, ended, hInt, hTerm, toolVars,
                 childVars, sigVars>>

\* except Exception as e: print(f"Error: {e}", file=sys.stderr)
Except ==
  /\ pc = "except" /\ MainRuns
  /\ Say(<<"stderr", "Error", 0, 0>>)
  /\ ToFinally(0)
  /\ UNCHANGED <<argVars, envVars, exitCode, ended, hInt, hTerm, proc,
                 wsExists, ws, cmd, pRes, browser, childVars, sigVars>>

\* ------------------------------------------------------------- teardown

\* The positions of main() before the try block.
PreTry == {"start", "mkdtemp", "sig_int", "sig_term"}

\* A cleanup() is running, called by a signal handler or by finally.
CleanupRuns == ended = "no" /\ cl # "none"

ProcSet == proc = "Popen"

\* proc and proc.poll() is None
ProcRunning == proc = "Popen" /\ child = "running"

\* if proc and proc.poll() is None: proc.terminate()
CleanupCheck ==
  /\ CleanupRuns /\ cl = "check"
  /\ IF ProcRunning
     THEN /\ sent' = Append(sent, "TERM")
          /\ cl' = "wait"
     ELSE /\ sent' = sent
          /\ cl' = "rmtree"
  /\ UNCHANGED <<argVars, envVars, pc, clBy, pending, exitCode, ended, hInt,
                 hTerm, toolVars, child, childRc, listening, sigVars>>

\* proc.wait(timeout=5) returns because the child has exited; proc = None
CleanupWaitDone ==
  /\ CleanupRuns /\ cl = "wait"
  /\ child = "exited"
  /\ proc' = "None"
  /\ cl' = "rmtree"
  /\ UNCHANGED <<argVars, envVars, pc, clBy, pending, exitCode, ended, hInt,
                 hTerm, wsExists, ws, cmd, pRes, msgs, browser, childVars,
                 sigVars>>

\* proc.wait(timeout=5) raises TimeoutExpired: proc.kill(); proc = None
CleanupWaitTimeout ==
  /\ CleanupRuns /\ cl = "wait"
  /\ child = "running"
  /\ sent' = Append(sent, "KILL")
  /\ child' = "exited" /\ childRc' = -9 /\ listening' = FALSE
  /\ proc' = "None"
  /\ cl' = "rmtree"
  /\ UNCHANGED <<argVars, envVars, pc, clBy, pending, exitCode, ended, hInt,
                 hTerm, wsExists, ws, cmd, pRes, msgs, browser, sigVars>>

\* shutil.rmtree(tmpdir, ignore_errors=True): whether tmpdir exists after.
Rmtree(exists) == FALSE

RmtreeRaisesIfAbsent(exists) == ~exists

\* shutil.rmtree(tmpdir, ignore_errors=True): whether it raises.
RmtreeRaises(exists) == FALSE

\* shutil.rmtree(tmpdir, ignore_errors=True), the last statement of
\* cleanup.  An error raised here would leave cleanup() and end the process
\* with a traceback (exit status 1).
CleanupRmtree ==
  /\ CleanupRuns /\ cl = "rmtree"
  /\ IF RmtreeRaises(wsExists)
     THEN /\ ExitNow(1)
          /\ UNCHANGED <<wsExists, ws>>
     ELSE /\ wsExists' = Rmtree(wsExists)
          /\ ws' = IF Rmtree(wsExists) THEN ws ELSE EmptyWs
          /\ cl' = "ret"
          /\ UNCHANGED <<pc, clBy, pending, exitCode, ended>>
  /\ UNCHANGED <<argVars, envVars, hInt, hTerm, proc, cmd, pRes, msgs,
                 browser, childVars, sigVars>>

\* The cleanup() of the finally clause returns: the pending SystemExit, if
\* any, leaves main() and the process exits with its code, else with 0.
FinallyReturn ==
  /\ CleanupRuns /\ cl = "ret" /\ clBy = "finally"
  /\ ExitNow(pending)
  /\ UNCHANGED <<argVars, envVars, hInt, hTerm, toolVars, childVars,
                 sigVars>>

HandlerExitHard ==
  /\ CleanupRuns /\ cl = "ret" /\ clBy = "handler"
  /\ ExitNow(0)
  /\ UNCHANGED <<argVars, envVars, hInt, hTerm, toolVars, childVars,
                 sigVars>>

\* cleanup_and_exit: cleanup() has returned, sys.exit(0).  The SystemExit
\* is raised where main() (or a cleanup it was running) was interrupted:
\* before the try block and inside the finally clause it ends the process;
\* inside the try block it runs the finally clause.  subprocess.run kills
\* its child and waits for it when an exception passes through it.
HandlerExit ==
  /\ CleanupRuns /\ cl = "ret" /\ clBy = "handler"
  /\ IF pc \in PreTry \/ pc = "finally"
     THEN /\ ExitNow(0)
          /\ UNCHANGED <<child, childRc>>
     ELSE /\ ToFinally(0)
          /\ UNCHANGED <<exitCode, ended>>
          /\ IF pc = "b_wait" /\ child = "running"
             THEN child' = "exited" /\ childRc' = -9
             ELSE UNCHANGED <<child, childRc>>
  /\ UNCHANGED <<argVars, envVars, hInt, hTerm, toolVars, listening, sent,
                 sigVars>>

\* SIGINT or SIGTERM is delivered to the tool.  With cleanup_and_exit
\* registered for it, the handler starts (whatever main() or a running
\* cleanup was doing is abandoned when the handler raises SystemExit);
\* otherwise the default disposition ends the process at once: SIGTERM
\* kills it, SIGINT raises KeyboardInterrupt outside the try block.
Signal ==
  /\ ended = "no"
  /\ sigs < MaxSignals
  /\ sigs' = sigs + 1
  /\ \E sig \in {"INT", "TERM"} :
       IF (sig = "INT" /\ hInt) \/ (sig = "TERM" /\ hTerm)
       THEN /\ cl' = "check" /\ clBy' = "handler"
            /\ sigEarly' = (sigEarly \/ ~(hInt /\ hTerm))
            /\ UNCHANGED <<pc, pending, exitCode, ended>>
       ELSE /\ pc' = "done" /\ cl' = "none" /\ clBy' = "none"
            /\ ended' = "killed"
            /\ sigEarly' = TRUE
            /\ UNCHANGED <<pending, exitCode>>
  /\ UNCHANGED <<argVars, envVars, hInt, hTerm, toolVars, childVars, faults>>

\* ------------------------------------------------------- the child process

\* The renderer exits by itself (or because of a signal it was sent) with
\* some return code.  A build that returns 0 has written its output to
\* tmpdir/_build/html, through the link tmpdir/_build if there is one.
ChildExit ==
  /\ child = "running"
  /\ \E rc \in RetCodes :
       /\ childRc' = rc
       /\ IF build /\ rc = 0
          THEN /\ BuildDirWritable
               /\ IF ws[N_build].kind = "link"
                  THEN srcBuildHtml' = NewOutput /\ ws' = ws
                  ELSE /\ ws' = [ws EXCEPT ![N_build] = WsDir(NewOutput)]
                       /\ srcBuildHtml' = srcBuildHtml
          ELSE UNCHANGED <<ws, srcBuildHtml>>
  /\ child' = "exited"
  /\ listening' = FALSE
  /\ UNCHANGED <<argVars, src, otherOut, busy, restBusy, onPath, ctlVars,
                 proc, wsExists, cmd, pRes, msgs, browser, sent, sigVars>>

\* The serving renderer starts to accept connections on its port.
ChildListen ==
  /\ child = "running" /\ ~build /\ ~listening
  /\ listening' = TRUE
  /\ UNCHANGED <<argVars, envVars, ctlVars, toolVars, child, childRc, sent,
                 sigVars>>

\* ------------------------------------------------------- specifications

Next ==
  \/ Validate
  \/ Mkdtemp
  \/ InstallSigint
  \/ InstallSigterm
  \/ StageLinks
  \/ StageLinksFail
  \/ WriteDescriptor
  \/ FindMyst
  \/ BuildLaunch
  \/ BuildEnterWait
  \/ BuildResult
  \/ BuildRemoveOutput
  \/ BuildRemoveFail
  \/ BuildCopy
  \/ BuildCopyFail
  \/ BuildExit
  \/ ServePort
  \/ ServeLaunch
  \/ LaunchFail
  \/ ServeStore
  \/ ServePoll
  \/ ServePollTimeout
  \/ ServeOpen
  \/ ServeWait
  \/ Except
  \/ CleanupCheck
  \/ CleanupWaitDone
  \/ CleanupWaitTimeout
  \/ CleanupRmtree
  \/ FinallyReturn
  \/ HandlerExit
  \/ Signal
  \/ ChildExit
  \/ ChildListen

Spec == Init /\ [][Next]_vars

\* The invocations in serve mode explored for what eventually happens.
InitServe ==
  /\ InitTool
  /\ file = N_notes_md /\ theme = "book-theme"
  /\ execute = FALSE /\ build = FALSE /\ outAlias = FALSE
  /\ noOpen \in BOOLEAN
  /\ pEnd = 0
  /\ src = SrcDir(file, "file", "dir", "absent", "file", "absent")
  /\ srcBuildHtml = NoData /\ otherOut = NoData
  /\ InitPorts({DefaultPort})
  /\ onPath = {"myst"}

\* The steps of the tool's own process in serve mode, which runs on by
\* itself: main(), the handlers and cleanup().  The polling deadline (30 s)
\* and the grace wait (5 s) expire in real time.
ServeStep ==
  \/ Validate
  \/ Mkdtemp
  \/ InstallSigint
  \/ InstallSigterm
  \/ StageLinks
  \/ WriteDescriptor
  \/ FindMyst
  \/ ServePort
  \/ ServeLaunch
  \/ ServeStore
  \/ ServePoll
  \/ ServePollTimeout
  \/ ServeOpen
  \/ ServeWait
  \/ Except
  \/ CleanupCheck
  \/ CleanupWaitDone
  \/ CleanupWaitTimeout
  \/ CleanupRmtree
  \/ FinallyReturn
  \/ HandlerExit

\* Serve mode: the tool, its failing system calls, the signals, the child.
NextServe ==
  \/ ServeStep
  \/ StageLinksFail
  \/ LaunchFail
  \/ Signal
  \/ ChildExit
  \/ ChildListen

\* The tool's process keeps running as long as it has a step to take.
SpecServe == InitServe /\ [][NextServe]_vars /\ WF_vars(ServeStep)

\* find_free_port(portArg, pEnd) called on its own.
PortCall ==
  /\ pRes.kind = "pending"
  /\ pRes' = FindFreePort(portArg, pEnd)
  /\ UNCHANGED <<argVars, envVars, ctlVars, proc, wsExists, ws, cmd, msgs,
                 browser, childVars, sigVars>>

SpecPort == InitPort /\ [][PortCall]_vars

\* ------------------------------------------------------------- the claims

\* C1: whenever the process has ended, however it ended (child exit, build
\* success or failure, missing renderer, no free port, an exception, or a
\* SIGINT/SIGTERM at any point after mkdtemp), the workspace directory no
\* longer exists.  (Before mkdtemp wsExists is FALSE, so the statement is
\* about the invocations that created the workspace.)
C1_WorkspaceRemoved == ended # "no" => ~wsExists

\* C2: no renderer child process is running when the tool's process has
\* ended, in serve mode and in build mode, on every exit path.
C2_NoOrphanChild == ended # "no" => child # "running"

\* C3: in build mode, when the renderer has exited with code 0 (no signal
\* was delivered and no operating system call of the tool failed for a
\* reason of the environment), the output location holds exactly the
\* renderer's build output at the end of the invocation.
C3_OutputIsBuildOutput ==
  (/\ ended = "exit" /\ build /\ sigs = 0 /\ ~faults
   /\ child = "exited" /\ childRc = 0)
  => OutputContent = NewOutput

\* C4: in build mode with no signal delivered, the tool's exit code is the
\* renderer's exit code, zero or nonzero, also when the renderer exited 0
\* and the removal or the copy of the output directory failed.
C4_ExitCodeMirrorsRenderer ==
  (/\ ended = "exit" /\ build /\ sigs = 0
   /\ child = "exited" /\ childRc >= 0)
  => exitCode = childRc

\* C4 witness: the renderer exited 0, the removal or copy failed, and the
\* tool has ended.
C4_Witness ==
  /\ ended = "exit" /\ build /\ sigs = 0
  /\ child = "exited" /\ childRc = 0
  /\ <<"stderr", "Error", 0, 0>> \in msgs
  /\ OutputContent # NewOutput

\* C5: a SIGINT or SIGTERM delivered after the handlers were registered
\* leads to the invocation ending with exit code 0, with the teardown done:
\* no child running, the workspace removed.
C5_SignalEndsCleanWithZero ==
  (ended # "no" /\ sigs > 0 /\ ~sigEarly)
  => (/\ ended = "exit" /\ exitCode = 0
      /\ ~wsExists
      /\ child # "running")

\* The two messages of validation.
ValidationErrors ==
  {<<"stderr", "does not exist", 0, 0>>,
   <<"stderr", "unsupported file type", 0, 0>>}

\* The file name ends in "." and one of the four extensions, after a
\* non-empty stem.
HasSupportedExtension ==
  /\ Len(file) >= 3
  /\ file[Len(file) - 1] = "."
  /\ file[Len(file)] \in {"md", "ipynb", "rst", "tex"}

\* C6: once validation has run, an existing file was accepted exactly when
\* its extension is one of .md, .ipynb, .rst, .tex; a path that does not
\* exist or has another extension made the tool exit with code 1 with no
\* workspace created, no signal handler installed and no child launched.
C6_Validation ==
  (pc # "start" /\ sigs = 0) =>
    /\ (src[file].kind = "file" /\ HasSupportedExtension)
         => (msgs \cap ValidationErrors = {} /\ pc # "done")
    /\ (~SrcExists(src, file) \/ ~HasSupportedExtension)
         => /\ pc = "done" /\ ended = "exit" /\ exitCode = 1
            /\ msgs \cap ValidationErrors # {}
            /\ ~wsExists /\ ws = EmptyWs
            /\ ~hInt /\ ~hTerm
            /\ child = "none" /\ cmd = <<>>

\* C6 witness: an existing file with an unsupported extension was rejected.
C6_Witness ==
  /\ pc = "done" /\ exitCode = 1
  /\ src[file].kind = "file"
  /\ ~HasSupportedExtension

\* C7: if find_free_port(start, end) returns p, then start <= p <= end
\* (end being start + 50 when omitted, which the code writes as end = 0),
\* p was bindable when probed, and every port of [start, p - 1] failed to
\* bind.
C7_LowestFreePort ==
  pRes.kind = "return" =>
    LET p == pRes.port
        e == IF pEnd = 0 THEN portArg + 50 ELSE pEnd
    IN  /\ portArg <= p /\ p <= e
        /\ p \in 0 .. 65535 /\ ~Occupied(p)
        /\ \A q \in portArg .. (p - 1) : Occupied(q) \/ q \notin 0 .. 65535

\* C7 witness: the search returned a port after skipping an occupied one.
C7_Witness ==
  /\ pRes.kind = "return"
  /\ pRes.port > portArg
  /\ Occupied(portArg)

\* C8: in serve mode (no signal delivered), if no port of
\* [start, start + 50] binds, the range message was printed to standard
\* error and the process ended with exit code 1.
C8_ExhaustedSearchExitsOne ==
  (/\ ended = "exit" /\ ~build /\ sigs = 0
   /\ pRes.kind # "pending"
   /\ \A p \in portArg .. (portArg + 50) : Probe(p) # "ok")
  => /\ exitCode = 1
     /\ <<"stderr", "no free port found in range", portArg, portArg + 50>>
          \in msgs

\* Staging has completed: the descriptor was written, nothing ran since.
Staged == pc = "find_myst" /\ cl = "none" /\ wsExists

\* C9 as stated: after staging, every entry of the source directory whose
\* name does not start with "." has an identically named link in the
\* workspace pointing at it, and no entry whose name starts with "." has a
\* counterpart.
C9_EveryVisibleEntryLinked ==
  Staged =>
    \A n \in AllNames :
      src[n].kind # "absent" =>
        IF n[1] = "." THEN ws[n].kind = "absent"
        ELSE ws[n].kind = "link" /\ ws[n].target = n

\* C9 amended: the same for every entry but myst.yml, whose place in the
\* workspace is taken by the generated regular file.
C9_VisibleEntriesButDescriptorLinked ==
  Staged =>
    /\ \A n \in AllNames \ {N_myst_yml} :
         src[n].kind # "absent" =>
           IF n[1] = "." THEN ws[n].kind = "absent"
           ELSE ws[n].kind = "link" /\ ws[n].target = n
    /\ ws[N_myst_yml].kind = "file"

\* C9 witness: staging completed for a directory with a hidden entry,
\* a visible sibling and a myst.yml.
C9_Witness ==
  /\ Staged
  /\ src[N_git].kind = "dir" /\ src[N_img].kind = "dir"
  /\ src[N_myst_yml].kind = "file"

\* C10: after staging, the workspace's myst.yml is a regular file of the
\* workspace (no link, and the source directory's myst.yml was not written
\* through one) whose content is the template with the theme and the
\* source file's stem, whatever myst.yml the source directory held.
C10_DescriptorGenerated ==
  Staged =>
    /\ ws[N_myst_yml].kind = "file"
    /\ ws[N_myst_yml].data =
         << <<"version: 1">>,
            <<"site:">>,
            <<"  template: ", theme>>,
            <<"project:">>,
            <<"  toc:">>,
            <<"    - file: ">> \o SubSeq(file, 1, Len(file) - 2) >>
    /\ src[N_myst_yml].kind = "file" => src[N_myst_yml].data = UserData

\* C10 witness: staging completed where the source directory had its own
\* myst.yml, with the theme that is not the default.
C10_Witness ==
  /\ Staged
  /\ src[N_myst_yml].kind \in {"file", "dir", "dangling"}
  /\ theme = "article-theme"
  /\ file = N_a_tar_md

\* C11: with the output location outside the source directory, no file
\* system operation of the tool itself (linking, descriptor unlink and
\* write, build-mode removal and copy, teardown's removal of the workspace)
\* creates, changes or deletes an entry of the source directory: every step
\* but the renderer's own writing leaves the source directory, a myst.yml in
\* it included, as it was.
C11_SourceDirUntouched ==
  [][outAlias \/ ChildExit \/ (src' = src /\ srcBuildHtml' = srcBuildHtml)]_vars

\* C11 witness: a build with a source myst.yml and a source _build directory
\* copied its output elsewhere and removed the workspace (its links
\* included); the targets are still there.
C11_Witness ==
  /\ ended = "exit" /\ build /\ ~outAlias /\ ~wsExists
  /\ otherOut = NewOutput
  /\ src[N_myst_yml] = SrcEntry("file")
  /\ src[file] = SrcEntry("file")
  /\ src[N_build] = SrcEntry("dir")

\* main() went past find_myst() into one of the two modes.
InMode ==
  pc \in {"b_launch", "b_spawned", "b_wait", "b_rm", "b_copy", "b_exit",
          "s_port", "s_launch", "s_spawned", "s_poll", "s_open", "s_wait"}

\* C12: the renderer command is `myst` whenever myst is on the path (npx
\* being there or not), it is `npx -y mystmd` exactly when myst is absent
\* and npx present, and with neither the tool prints the installation error,
\* never launches a child and (no signal delivered, staging not failed) ends
\* with exit code 1.
C12_RendererResolution ==
  LET notFound == <<"stderr", "myst not found", 0, 0>>
  IN  /\ InMode => cmd # <<>>
      /\ cmd # <<>> =>
           IF "myst" \in onPath
           THEN cmd[1] = "myst" /\ (Len(cmd) > 1 => cmd[2] \in {"build", "start"})
           ELSE /\ "npx" \in onPath
                /\ Len(cmd) >= 3
                /\ SubSeq(cmd, 1, 3) = <<"npx", "-y", "mystmd">>
      /\ notFound \in msgs => onPath \cap {"myst", "npx"} = {}
      /\ onPath \cap {"myst", "npx"} = {} =>
           /\ child = "none" /\ cmd = <<>> /\ ~InMode
           /\ (/\ ended = "exit" /\ sigs = 0 /\ HasSupportedExtension
               /\ <<"stderr", "Error", 0, 0>> \notin msgs) =>
                notFound \in msgs /\ exitCode = 1

\* C12 witness: with myst and npx both on the path a child was launched.
C12_Witness ==
  /\ onPath = {"myst", "npx"}
  /\ child = "running"

\* C12 witness of the error: with neither on the path the tool has ended,
\* no signal delivered, after staging.
C12_WitnessNotFound ==
  /\ onPath = {}
  /\ ended = "exit" /\ sigs = 0 /\ HasSupportedExtension
  /\ <<"stderr", "Error", 0, 0>> \notin msgs

\* The messages that say the requested port was replaced.
PortInUseMsgs == {m \in msgs : m[2] = "port in use"}

\* C13: in serve mode a launched child was given, after --port, the port
\* that the free-port search returned for the requested port, and the
\* message naming the requested and the chosen port was printed exactly
\* when the two differ.
C13_ChildGetsFoundPort ==
  ~build =>
    /\ child # "none" =>
         /\ pRes = FindFreePort(portArg, 0) /\ pRes.kind = "return"
         /\ \E i \in 1 .. (Len(cmd) - 1) :
              cmd[i] = "--port" /\ cmd[i + 1] = ToString(pRes.port)
         /\ Cardinality({i \in 1 .. Len(cmd) : cmd[i] = "--port"}) = 1
    /\ pRes.kind = "return" =>
         PortInUseMsgs =
           IF pRes.port # portArg
           THEN {<<"stdout", "port in use", portArg, pRes.port>>}
           ELSE {}
    /\ pRes.kind # "return" => PortInUseMsgs = {}

\* C13 witness: a child was launched on a port other than the requested.
C13_Witness ==
  /\ ~build /\ child = "running"
  /\ pRes.kind = "return" /\ pRes.port # portArg

\* C14: in no reachable state is the workspace removed while a launched
\* renderer child is still running: teardown removes the workspace only
\* after the child is no longer running, in serve mode and in build mode,
\* from a signal handler and on the normal exit path.
C14_WorkspaceOutlivesChild == child = "running" => wsExists

\* C15: teardown sends the child one signal at a time and only while it is
\* running: the termination request where teardown tests the child, the
\* kill only from the grace wait that follows a termination request of the
\* same teardown run, and only when the child is still running as that wait
\* expires.  A child that has exited (before teardown or within the grace
\* wait) is sent neither.
C15_EscalationOrder ==
  [][sent' # sent =>
       /\ Len(sent') = Len(sent) + 1
       /\ SubSeq(sent', 1, Len(sent)) = sent
       /\ child = "running"
       /\ IF sent'[Len(sent')] = "TERM"
          THEN cl = "check"
          ELSE /\ sent'[Len(sent')] = "KILL"
               /\ cl = "wait"
               /\ sent # <<>> /\ sent[Len(sent)] = "TERM"]_vars

\* C15 witness: a teardown run sent the termination request, the child did
\* not exit within the grace wait and was killed.
C15_Witness == sent = <<"TERM", "KILL">> /\ cl = "rmtree"

\* A run of cleanup() has run to its end: the workspace that line 134
\* created is gone, which only the last statement of cleanup() does.
TeardownCompleted == pc \notin {"start", "mkdtemp"} /\ ~wsExists

\* A step of a running cleanup().
CleanupStep ==
  CleanupCheck \/ CleanupWaitDone \/ CleanupWaitTimeout \/ CleanupRmtree

\* What a step of teardown leaves alone once an earlier run has completed:
\* it sends nothing, raises nothing, and changes neither the child handle,
\* the workspace nor the child.
NoOpStep ==
  /\ sent' = sent /\ proc' = proc /\ child' = child
  /\ wsExists' = wsExists /\ ws' = ws
  /\ ended' = "no"
  /\ cl \in {"check", "rmtree"}
  /\ cl' = IF cl = "check" THEN "rmtree" ELSE "ret"

\* C16 as stated: every step of a teardown run made after an earlier run
\* has completed finds the child handle cleared and the workspace absent,
\* and is a no-op.
C16_RepeatedTeardownHandleCleared ==
  [][(TeardownCompleted /\ CleanupStep) =>
       (proc = "None" /\ ~wsExists /\ NoOpStep)]_vars

\* C16 amended: the same, where the child handle is cleared or still refers
\* to a child that had already exited when the earlier run tested it.
C16_RepeatedTeardownNoOp ==
  [][(TeardownCompleted /\ CleanupStep) =>
       /\ proc = "None" \/ child = "exited"
       /\ ~wsExists
       /\ NoOpStep]_vars

\* C16 witness: a handler's teardown run terminated the serving child and
\* removed the workspace, and the teardown run of the finally clause that
\* followed has returned.
C16_Witness ==
  /\ pc = "finally" /\ cl = "ret" /\ clBy = "finally"
  /\ sigs = 1 /\ sent = <<"TERM">> /\ proc = "None"

\* The teardown run of the finally clause starts.
FinallyTeardownStarts ==
  /\ cl' = "check" /\ clBy' = "finally"
  /\ ~(cl = "check" /\ clBy = "finally")

\* A signal handler starts a teardown run while a teardown run is in
\* progress.
NestedTeardownStarts ==
  /\ Signal
  /\ cl \in {"check", "wait", "rmtree"}
  /\ cl' = "check" /\ clBy' = "handler"

\* C17 as stated: once a signal handler has run teardown the finally clause
\* does not run it again, and no signal handler starts a teardown run while
\* an earlier one is in progress.
C17_TeardownFromOneContext ==
  [][/\ HandlerExit => ~FinallyTeardownStarts
     /\ ~NestedTeardownStarts]_vars

\* C17 amended: the finally clause starts teardown at most once (only on
\* entering it, and it is never left but by the end of the process); when a
\* signal handler has run teardown, the finally clause runs it again if the
\* signal interrupted the try block, and the process ends at once if it
\* interrupted the code before the try block or the finally clause; a
\* handler that starts during a teardown run starts teardown anew.
C17_TeardownFromHandlerThenFinally ==
  [][/\ FinallyTeardownStarts => (pc # "finally" /\ pc' = "finally")
     /\ pc = "finally" => pc' \in {"finally", "done"}
     /\ HandlerExit =>
          IF pc \in {"start", "mkdtemp", "sig_int", "sig_term", "finally"}
          THEN ended' = "exit" /\ cl' = "none"
          ELSE FinallyTeardownStarts /\ ended' = "no"
     /\ (Signal /\ ended' = "no") => (cl' = "check" /\ clBy' = "handler")]_vars

\* C17 witness: two handlers ran teardown, the second starting during the
\* grace wait of the first, and the teardown run of the finally clause
\* starts after them.
C17_Witness ==
  /\ pc = "finally" /\ cl = "check" /\ clBy = "finally"
  /\ sigs = 2 /\ sent = <<"TERM", "TERM", "KILL">>

\* C18: in serve mode, with no signal delivered, as long as the launched
\* child is running the tool has neither ended nor left the serve path nor
\* started teardown (no timeout ends the wait); and whenever the child has
\* exited, also while the tool was still polling the port, the invocation
\* eventually ends (by then teardown has removed the workspace).
C18_ServeWaitsForChild ==
  /\ []((~build /\ sigs = 0 /\ child = "running") =>
          /\ ended = "no" /\ cl = "none"
          /\ pc \in {"s_spawned", "s_poll", "s_open", "s_wait"})
  /\ (~build /\ child = "exited") ~> (ended = "exit" /\ ~wsExists)

\* C18 witness: the serving child exited by itself before it listened, the
\* polling timed out, the wait returned and the invocation ended.
C18_Witness ==
  /\ ~build /\ ~noOpen /\ child = "exited" /\ childRc = 1
  /\ sigs = 0 /\ browser = 0 /\ sent = <<>>
  /\ ended = "exit"

\* C19: the browser is opened at most once, only in serve mode without
\* --no-open and with a child launched; it is opened only from the position
\* reached by a successful connect of the polling to the port the running
\* child listens on; and when the polling ends otherwise (its deadline) the
\* tool goes on to the wait for the child with the browser not opened,
\* nothing printed and the process alive.
C19_BrowserOpenedOnce ==
  /\ [](/\ browser \in {0, 1}
        /\ browser = 1 => (~build /\ ~noOpen /\ child # "none"))
  /\ [][/\ browser' # browser =>
             (browser' = browser + 1 /\ pc = "s_open" /\ cl = "none")
        /\ (pc' = "s_open" /\ pc # "s_open") =>
             (pc = "s_poll" /\ listening /\ child = "running")
        /\ (pc = "s_poll" /\ pc' # pc /\ cl = "none") =>
             /\ pc' \in {"s_open", "s_wait"}
             /\ browser' = browser /\ msgs' = msgs
             /\ ended' = "no" /\ cl' = "none"]_vars

\* C19 witness: the browser was opened and the tool waits for the child.
C19_Witness ==
  /\ browser = 1 /\ pc = "s_wait" /\ cl = "none"
  /\ child = "running" /\ listening

\* The renderer of a build has exited with a code that is not 0.
BuildFailed == build /\ child = "exited" /\ childRc # 0

\* C20: in build mode every step that does not end in "the renderer has
\* exited with code 0" leaves the output location (and the source
\* directory) as it was, so that with a renderer that exited nonzero the
\* output is what it was before the invocation; the tool then never is at
\* the removal or the copy, prints no "output written", and when it has
\* ended teardown has removed the workspace.
C20_FailedBuildLeavesOutput ==
  /\ [][(build /\ ~(child' = "exited" /\ childRc' = 0)) =>
          (otherOut' = otherOut /\ srcBuildHtml' = srcBuildHtml /\ src' = src)]_vars
  /\ [](BuildFailed =>
          /\ pc \notin {"b_rm", "b_copy"}
          /\ <<"stdout", "Output written", 0, 0>> \notin msgs
          /\ ended # "no" => (ended = "exit" /\ ~wsExists))

\* C20 witness: the renderer exited with code 2, the tool has ended, and
\* the output directory that existed before is as it was.
C20_Witness ==
  /\ BuildFailed /\ childRc = 2 /\ sigs = 0
  /\ ended = "exit" /\ exitCode = 2
  /\ ~outAlias /\ otherOut = OldOutput

====
